---- MODULE Spec2Model ----
(***************************************************************************)
(* A model of pymetar's WeatherReport (src/pymetar.py): the observation    *)
(* object, the line-oriented decoder _parse_report, the derived accessors, *)
(* FetchReport and the cache files _fetch reads and writes.                *)
(*                                                                          *)
(* Text is kept as TLA+ strings and taken apart character by character     *)
(* (SubSeq of a string is its substring), so that the decoder's splitting,  *)
(* stripping, searching and number conversion are computed the way the      *)
(* Python code computes them.                                               *)
(*                                                                          *)
(* An optional value (a Python attribute that may be None) is a sequence    *)
(* of length 0 (None) or 1 (the value).                                     *)
(*                                                                          *)
(* A value the code computes once and uses several times is passed on as    *)
(* the argument of a further operator, named after the step it continues.   *)
(***************************************************************************)
EXTENDS Integers, Sequences, FiniteSets, TLC

\* ------------------------------------------------------------------------
\* Python values
\* ------------------------------------------------------------------------

None == <<>>

Some(v) == <<v>>

IsNone(o) == Len(o) = 0

Val(o) == o[1]

\* A Python bytes object given as the report: it has no str split("\n").
Bytes(b) == <<"bytes", b>>

IsBytes(o) == Len(o) = 2

\* x is neither None nor empty (a str or bytes x in a Python condition)
Truthy(o) == Len(o) > 0 /\ o[Len(o)] # ""

Falsy(o) == ~Truthy(o)

\* x or y
Or(x, y) == IF Truthy(x) THEN x ELSE y

\* ------------------------------------------------------------------------
\* str operations
\* ------------------------------------------------------------------------

WS == {" ", "\t", "\r", "\n"}

Digits == {"0", "1", "2", "3", "4", "5", "6", "7", "8", "9"}

Ch(s, i) == SubSeq(s, i, i)

\* s[a:b] of a str or a list s, with 0-based non-negative a and b (clamped
\* like a Python slice)
Slice(s, a, b) == SubSeq(s, a + 1, IF b > Len(s) THEN Len(s) ELSE b)

\* s[a:]
From(s, a) == SubSeq(s, a + 1, Len(s))

\* s[:-1]
DropLast(s) == SubSeq(s, 1, Len(s) - 1)

MinOf(S) == CHOOSE x \in S : \A y \in S : x <= y

MaxOf(S) == CHOOSE x \in S : \A y \in S : x >= y

\* The 0-based indexes at which sub occurs in s
Occurrences(s, sub) ==
    {i \in 0..(Len(s) - Len(sub)) : SubSeq(s, i + 1, i + Len(sub)) = sub}

\* sub in s
In(sub, s) == \E i \in 0..(Len(s) - Len(sub)) : SubSeq(s, i + 1, i + Len(sub)) = sub

\* s.find(sub): the lowest 0-based index, or -1
Find(s, sub) == IF In(sub, s) THEN MinOf(Occurrences(s, sub)) ELSE -1

\* s.lstrip()
RECURSIVE LStrip(_)
LStrip(s) == IF Len(s) > 0 /\ Ch(s, 1) \in WS THEN LStrip(From(s, 1)) ELSE s

\* s.strip()
RECURSIVE Strip(_)
Strip(s) ==
    IF Len(s) > 0 /\ Ch(s, Len(s)) \in WS THEN Strip(DropLast(s)) ELSE LStrip(s)

\* s[::-1]
RECURSIVE Reverse(_)
Reverse(s) == IF Len(s) = 0 THEN "" ELSE Reverse(From(s, 1)) \o Ch(s, 1)

\* s.replace(a, b) for a single character a
RECURSIVE Replace(_, _, _)
Replace(s, a, b) ==
    IF Len(s) = 0 THEN ""
    ELSE (IF Ch(s, 1) = a THEN b ELSE Ch(s, 1)) \o Replace(From(s, 1), a, b)

UpperCh(c) ==
    IF In(c, "abcdefghijklmnopqrstuvwxyz")
    THEN Ch("ABCDEFGHIJKLMNOPQRSTUVWXYZ", Find("abcdefghijklmnopqrstuvwxyz", c) + 1)
    ELSE c

\* s.upper()
RECURSIVE ToUpper(_)
ToUpper(s) == IF Len(s) = 0 THEN "" ELSE UpperCh(Ch(s, 1)) \o ToUpper(From(s, 1))

\* s.split(sep, maxsplit) for a single character sep; maxsplit = -1: no limit.
\* SplitAt: the split at the first sep, found at 0-based i (-1: none).
RECURSIVE SplitSep(_, _, _)
SplitAt(s, sep, maxsplit, i) ==
    IF maxsplit = 0 \/ i = -1 THEN <<s>>
    ELSE <<Slice(s, 0, i)>> \o
         SplitSep(From(s, i + 1), sep, IF maxsplit = -1 THEN -1 ELSE maxsplit - 1)

SplitSep(s, sep, maxsplit) == SplitAt(s, sep, maxsplit, Find(s, sep))

\* s.split(None, maxsplit): runs of whitespace separate; maxsplit = -1: no
\* limit.  SplitStripped: the split of t, which starts with no whitespace.
RECURSIVE SplitWS(_, _)
SplitStripped(t, maxsplit, blanks) ==
    IF Len(t) = 0 THEN <<>>
    ELSE IF maxsplit = 0 \/ blanks = {} THEN <<t>>
    ELSE <<SubSeq(t, 1, MinOf(blanks) - 1)>> \o
         SplitWS(From(t, MinOf(blanks)), IF maxsplit = -1 THEN -1 ELSE maxsplit - 1)

SplitWS(s, maxsplit) ==
    SplitStripped(LStrip(s), maxsplit,
                  {i \in 1..Len(LStrip(s)) : Ch(LStrip(s), i) \in WS})

\* ------------------------------------------------------------------------
\* Numbers.  A Python float or int read from a report is kept exactly, as the
\* decimal m / 10^e with e as small as possible, so that equal numbers are
\* equal values (68, 68.0 and 68.00 are one value).  The reports of this
\* model write numbers as [sign] digits [. digits]; float() and int() also
\* take exponents, "inf", "nan" and "_" separators, which no report here uses.
\* ------------------------------------------------------------------------

RECURSIVE Pow10(_)
Pow10(n) == IF n = 0 THEN 1 ELSE 10 * Pow10(n - 1)

RECURSIVE Norm(_, _)
Norm(m, e) ==
    IF m = 0 THEN [m |-> 0, e |-> 0]
    ELSE IF e > 0 /\ m % 10 = 0 THEN Norm(m \div 10, e - 1)
    ELSE [m |-> m, e |-> e]

D(m, e) == Norm(m, e)

DecMul(a, b) == Norm(a.m * b.m, a.e + b.e)

DecScale(a, e) == a.m * Pow10(e - a.e)

DecLE(a, b) ==
    IF a.e > b.e THEN DecScale(a, a.e) <= DecScale(b, a.e)
    ELSE DecScale(a, b.e) <= DecScale(b, b.e)

DecGT(a, b) == ~DecLE(a, b)

AllDigits(s) == \A i \in 1..Len(s) : Ch(s, i) \in Digits

RECURSIVE DigitsVal(_)
DigitsVal(s) ==
    IF Len(s) = 0 THEN 0
    ELSE 10 * DigitsVal(DropLast(s)) + Find("0123456789", Ch(s, Len(s)))

Signed(t) == Len(t) > 0 /\ Ch(t, 1) \in {"+", "-"}

Unsigned(t) == IF Signed(t) THEN From(t, 1) ELSE t

Sign(t) == IF Len(t) > 0 /\ Ch(t, 1) = "-" THEN -1 ELSE 1

\* int(s) of the stripped s: sign and digits.  ok = FALSE stands for ValueError.
IntOf(sign, u) ==
    IF Len(u) > 0 /\ AllDigits(u) THEN [ok |-> TRUE, v |-> sign * DigitsVal(u)]
    ELSE [ok |-> FALSE, v |-> 0]

\* int(s)
ParseInt(s) == IntOf(Sign(Strip(s)), Unsigned(Strip(s)))

\* float of sign, integer part ip and fraction part fp
FloatOf(sign, ip, fp) ==
    IF AllDigits(ip) /\ AllDigits(fp) /\ Len(ip) + Len(fp) > 0
    THEN [ok |-> TRUE, v |-> Norm(sign * DigitsVal(ip \o fp), Len(fp))]
    ELSE [ok |-> FALSE, v |-> D(0, 0)]

\* float of sign and unsigned text u with its point at 0-based dot (-1: none)
FloatAt(sign, u, dot) ==
    IF dot = -1 THEN FloatOf(sign, u, "")
    ELSE FloatOf(sign, Slice(u, 0, dot), From(u, dot + 1))

\* float(s).  ok = FALSE stands for ValueError.
ParseFloat(s) ==
    FloatAt(Sign(Strip(s)), Unsigned(Strip(s)), Find(Unsigned(Strip(s)), "."))

\* ------------------------------------------------------------------------
\* The tables and the two grammars of the encoded report
\* ------------------------------------------------------------------------

\* _WEATHER_CONDITIONS: code -> (name, pixmap, qualifier -> description).  A
\* description is <<text>>; an entry that is a (name, pixmap) tuple in the
\* source is <<name, pixmap>>.
WEATHER_CONDITIONS ==
    "DZ" :> [name |-> "Drizzle", pixmap |-> "rain", quals |->
            ("" :> <<"Moderate drizzle">> @@
             "-" :> <<"Light drizzle">> @@
             "+" :> <<"Heavy drizzle">> @@
             "VC" :> <<"Drizzle in the vicinity">> @@
             "MI" :> <<"Shallow drizzle">> @@
             "BC" :> <<"Patches of drizzle">> @@
             "PR" :> <<"Partial drizzle">> @@
             "TS" :> <<"Thunderstorm", "storm">> @@
             "BL" :> <<"Windy drizzle">> @@
             "SH" :> <<"Showers">> @@
             "DR" :> <<"Drifting drizzle">> @@
             "FZ" :> <<"Freezing drizzle">>)] @@
    "RA" :> [name |-> "Rain", pixmap |-> "rain", quals |->
            ("" :> <<"Moderate rain">> @@
             "-" :> <<"Light rain">> @@
             "+" :> <<"Heavy rain">> @@
             "VC" :> <<"Rain in the vicinity">> @@
             "MI" :> <<"Shallow rain">> @@
             "BC" :> <<"Patches of rain">> @@
             "PR" :> <<"Partial rainfall">> @@
             "TS" :> <<"Thunderstorm", "storm">> @@
             "BL" :> <<"Blowing rainfall">> @@
             "SH" :> <<"Rain showers">> @@
             "DR" :> <<"Drifting rain">> @@
             "FZ" :> <<"Freezing rain">>)] @@
    "SN" :> [name |-> "Snow", pixmap |-> "snow", quals |->
            ("" :> <<"Moderate snow">> @@
             "-" :> <<"Light snow">> @@
             "+" :> <<"Heavy snow">> @@
             "VC" :> <<"Snow in the vicinity">> @@
             "MI" :> <<"Shallow snow">> @@
             "BC" :> <<"Patches of snow">> @@
             "PR" :> <<"Partial snowfall">> @@
             "TS" :> <<"Snowstorm", "storm">> @@
             "BL" :> <<"Blowing snowfall">> @@
             "SH" :> <<"Snowfall showers">> @@
             "DR" :> <<"Drifting snow">> @@
             "FZ" :> <<"Freezing snow">>)] @@
    "SG" :> [name |-> "Snow grains", pixmap |-> "snow", quals |->
            ("" :> <<"Moderate snow grains">> @@
             "-" :> <<"Light snow grains">> @@
             "+" :> <<"Heavy snow grains">> @@
             "VC" :> <<"Snow grains in the vicinity">> @@
             "MI" :> <<"Shallow snow grains">> @@
             "BC" :> <<"Patches of snow grains">> @@
             "PR" :> <<"Partial snow grains">> @@
             "TS" :> <<"Snowstorm", "storm">> @@
             "BL" :> <<"Blowing snow grains">> @@
             "SH" :> <<"Snow grain showers">> @@
             "DR" :> <<"Drifting snow grains">> @@
             "FZ" :> <<"Freezing snow grains">>)] @@
    "IC" :> [name |-> "Ice crystals", pixmap |-> "snow", quals |->
            ("" :> <<"Moderate ice crystals">> @@
             "-" :> <<"Few ice crystals">> @@
             "+" :> <<"Heavy ice crystals">> @@
             "VC" :> <<"Ice crystals in the vicinity">> @@
             "BC" :> <<"Patches of ice crystals">> @@
             "PR" :> <<"Partial ice crystals">> @@
             "TS" :> <<"Ice crystal storm", "storm">> @@
             "BL" :> <<"Blowing ice crystals">> @@
             "SH" :> <<"Showers of ice crystals">> @@
             "DR" :> <<"Drifting ice crystals">> @@
             "FZ" :> <<"Freezing ice crystals">>)] @@
    "PE" :> [name |-> "Ice pellets", pixmap |-> "snow", quals |->
            ("" :> <<"Moderate ice pellets">> @@
             "-" :> <<"Few ice pellets">> @@
             "+" :> <<"Heavy ice pellets">> @@
             "VC" :> <<"Ice pellets in the vicinity">> @@
             "MI" :> <<"Shallow ice pellets">> @@
             "BC" :> <<"Patches of ice pellets">> @@
             "PR" :> <<"Partial ice pellets">> @@
             "TS" :> <<"Ice pellets storm", "storm">> @@
             "BL" :> <<"Blowing ice pellets">> @@
             "SH" :> <<"Showers of ice pellets">> @@
             "DR" :> <<"Drifting ice pellets">> @@
             "FZ" :> <<"Freezing ice pellets">>)] @@
    "GR" :> [name |-> "Hail", pixmap |-> "rain", quals |->
            ("" :> <<"Moderate hail">> @@
             "-" :> <<"Light hail">> @@
             "+" :> <<"Heavy hail">> @@
             "VC" :> <<"Hail in the vicinity">> @@
             "MI" :> <<"Shallow hail">> @@
             "BC" :> <<"Patches of hail">> @@
             "PR" :> <<"Partial hail">> @@
             "TS" :> <<"Hailstorm", "storm">> @@
             "BL" :> <<"Blowing hail">> @@
             "SH" :> <<"Hail showers">> @@
             "DR" :> <<"Drifting hail">> @@
             "FZ" :> <<"Freezing hail">>)] @@
    "GS" :> [name |-> "Small hail", pixmap |-> "rain", quals |->
            ("" :> <<"Moderate small hail">> @@
             "-" :> <<"Light small hail">> @@
             "+" :> <<"Heavy small hail">> @@
             "VC" :> <<"Small hail in the vicinity">> @@
             "MI" :> <<"Shallow small hail">> @@
             "BC" :> <<"Patches of small hail">> @@
             "PR" :> <<"Partial small hail">> @@
             "TS" :> <<"Small hailstorm", "storm">> @@
             "BL" :> <<"Blowing small hail">> @@
             "SH" :> <<"Showers of small hail">> @@
             "DR" :> <<"Drifting small hail">> @@
             "FZ" :> <<"Freezing small hail">>)] @@
    "UP" :> [name |-> "Precipitation", pixmap |-> "rain", quals |->
            ("" :> <<"Moderate precipitation">> @@
             "-" :> <<"Light precipitation">> @@
             "+" :> <<"Heavy precipitation">> @@
             "VC" :> <<"Precipitation in the vicinity">> @@
             "MI" :> <<"Shallow precipitation">> @@
             "BC" :> <<"Patches of precipitation">> @@
             "PR" :> <<"Partial precipitation">> @@
             "TS" :> <<"Unknown thunderstorm", "storm">> @@
             "BL" :> <<"Blowing precipitation">> @@
             "SH" :> <<"Showers, type unknown">> @@
             "DR" :> <<"Drifting precipitation">> @@
             "FZ" :> <<"Freezing precipitation">>)] @@
    "BR" :> [name |-> "Mist", pixmap |-> "fog", quals |->
            ("" :> <<"Moderate mist">> @@
             "-" :> <<"Light mist">> @@
             "+" :> <<"Thick mist">> @@
             "VC" :> <<"Mist in the vicinity">> @@
             "MI" :> <<"Shallow mist">> @@
             "BC" :> <<"Patches of mist">> @@
             "PR" :> <<"Partial mist">> @@
             "BL" :> <<"Mist with wind">> @@
             "DR" :> <<"Drifting mist">> @@
             "FZ" :> <<"Freezing mist">>)] @@
    "FG" :> [name |-> "Fog", pixmap |-> "fog", quals |->
            ("" :> <<"Moderate fog">> @@
             "-" :> <<"Light fog">> @@
             "+" :> <<"Thick fog">> @@
             "VC" :> <<"Fog in the vicinity">> @@
             "MI" :> <<"Shallow fog">> @@
             "BC" :> <<"Patches of fog">> @@
             "PR" :> <<"Partial fog">> @@
             "BL" :> <<"Fog with wind">> @@
             "DR" :> <<"Drifting fog">> @@
             "FZ" :> <<"Freezing fog">>)] @@
    "FU" :> [name |-> "Smoke", pixmap |-> "fog", quals |->
            ("" :> <<"Moderate smoke">> @@
             "-" :> <<"Thin smoke">> @@
             "+" :> <<"Thick smoke">> @@
             "VC" :> <<"Smoke in the vicinity">> @@
             "MI" :> <<"Shallow smoke">> @@
             "BC" :> <<"Patches of smoke">> @@
             "PR" :> <<"Partial smoke">> @@
             "TS" :> <<"Smoke w/ thunders", "storm">> @@
             "BL" :> <<"Smoke with wind">> @@
             "DR" :> <<"Drifting smoke">>)] @@
    "VA" :> [name |-> "Volcanic ash", pixmap |-> "fog", quals |->
            ("" :> <<"Moderate volcanic ash">> @@
             "+" :> <<"Thick volcanic ash">> @@
             "VC" :> <<"Volcanic ash in the vicinity">> @@
             "MI" :> <<"Shallow volcanic ash">> @@
             "BC" :> <<"Patches of volcanic ash">> @@
             "PR" :> <<"Partial volcanic ash">> @@
             "TS" :> <<"Volcanic ash w/ thunders", "storm">> @@
             "BL" :> <<"Blowing volcanic ash">> @@
             "SH" :> <<"Showers of volcanic ash">> @@
             "DR" :> <<"Drifting volcanic ash">> @@
             "FZ" :> <<"Freezing volcanic ash">>)] @@
    "SA" :> [name |-> "Sand", pixmap |-> "fog", quals |->
            ("" :> <<"Moderate sand">> @@
             "-" :> <<"Light sand">> @@
             "+" :> <<"Heavy sand">> @@
             "VC" :> <<"Sand in the vicinity">> @@
             "BC" :> <<"Patches of sand">> @@
             "PR" :> <<"Partial sand">> @@
             "BL" :> <<"Blowing sand">> @@
             "DR" :> <<"Drifting sand">>)] @@
    "HZ" :> [name |-> "Haze", pixmap |-> "fog", quals |->
            ("" :> <<"Moderate haze">> @@
             "-" :> <<"Light haze">> @@
             "+" :> <<"Thick haze">> @@
             "VC" :> <<"Haze in the vicinity">> @@
             "MI" :> <<"Shallow haze">> @@
             "BC" :> <<"Patches of haze">> @@
             "PR" :> <<"Partial haze">> @@
             "BL" :> <<"Haze with wind">> @@
             "DR" :> <<"Drifting haze">> @@
             "FZ" :> <<"Freezing haze">>)] @@
    "PY" :> [name |-> "Sprays", pixmap |-> "fog", quals |->
            ("" :> <<"Moderate sprays">> @@
             "-" :> <<"Light sprays">> @@
             "+" :> <<"Heavy sprays">> @@
             "VC" :> <<"Sprays in the vicinity">> @@
             "MI" :> <<"Shallow sprays">> @@
             "BC" :> <<"Patches of sprays">> @@
             "PR" :> <<"Partial sprays">> @@
             "BL" :> <<"Blowing sprays">> @@
             "DR" :> <<"Drifting sprays">> @@
             "FZ" :> <<"Freezing sprays">>)] @@
    "DU" :> [name |-> "Dust", pixmap |-> "fog", quals |->
            ("" :> <<"Moderate dust">> @@
             "-" :> <<"Light dust">> @@
             "+" :> <<"Heavy dust">> @@
             "VC" :> <<"Dust in the vicinity">> @@
             "BC" :> <<"Patches of dust">> @@
             "PR" :> <<"Partial dust">> @@
             "BL" :> <<"Blowing dust">> @@
             "DR" :> <<"Drifting dust">>)] @@
    "SQ" :> [name |-> "Squall", pixmap |-> "storm", quals |->
            ("" :> <<"Moderate squall">> @@
             "-" :> <<"Light squall">> @@
             "+" :> <<"Heavy squall">> @@
             "VC" :> <<"Squall in the vicinity">> @@
             "PR" :> <<"Partial squall">> @@
             "TS" :> <<"Thunderous squall">> @@
             "BL" :> <<"Blowing squall">> @@
             "DR" :> <<"Drifting squall">> @@
             "FZ" :> <<"Freezing squall">>)] @@
    "SS" :> [name |-> "Sandstorm", pixmap |-> "fog", quals |->
            ("" :> <<"Moderate sandstorm">> @@
             "-" :> <<"Light sandstorm">> @@
             "+" :> <<"Heavy sandstorm">> @@
             "VC" :> <<"Sandstorm in the vicinity">> @@
             "MI" :> <<"Shallow sandstorm">> @@
             "PR" :> <<"Partial sandstorm">> @@
             "TS" :> <<"Thunderous sandstorm", "storm">> @@
             "BL" :> <<"Blowing sandstorm">> @@
             "DR" :> <<"Drifting sandstorm">> @@
             "FZ" :> <<"Freezing sandstorm">>)] @@
    "DS" :> [name |-> "Duststorm", pixmap |-> "fog", quals |->
            ("" :> <<"Moderate duststorm">> @@
             "-" :> <<"Light duststorm">> @@
             "+" :> <<"Heavy duststorm">> @@
             "VC" :> <<"Duststorm in the vicinity">> @@
             "MI" :> <<"Shallow duststorm">> @@
             "PR" :> <<"Partial duststorm">> @@
             "TS" :> <<"Thunderous duststorm", "storm">> @@
             "BL" :> <<"Blowing duststorm">> @@
             "DR" :> <<"Drifting duststorm">> @@
             "FZ" :> <<"Freezing duststorm">>)] @@
    "PO" :> [name |-> "Dustwhirls", pixmap |-> "fog", quals |->
            ("" :> <<"Moderate dustwhirls">> @@
             "-" :> <<"Light dustwhirls">> @@
             "+" :> <<"Heavy dustwhirls">> @@
             "VC" :> <<"Dustwhirls in the vicinity">> @@
             "MI" :> <<"Shallow dustwhirls">> @@
             "BC" :> <<"Patches of dustwhirls">> @@
             "PR" :> <<"Partial dustwhirls">> @@
             "BL" :> <<"Blowing dustwhirls">> @@
             "DR" :> <<"Drifting dustwhirls">>)] @@
    "+FC" :> [name |-> "Tornado", pixmap |-> "storm", quals |->
            ("" :> <<"Moderate tornado">> @@
             "+" :> <<"Raging tornado">> @@
             "VC" :> <<"Tornado in the vicinity">> @@
             "PR" :> <<"Partial tornado">> @@
             "TS" :> <<"Thunderous tornado">> @@
             "BL" :> <<"Tornado">> @@
             "DR" :> <<"Drifting tornado">> @@
             "FZ" :> <<"Freezing tornado">>)] @@
    "FC" :> [name |-> "Funnel cloud", pixmap |-> "fog", quals |->
            ("" :> <<"Moderate funnel cloud">> @@
             "-" :> <<"Light funnel cloud">> @@
             "+" :> <<"Thick funnel cloud">> @@
             "VC" :> <<"Funnel cloud in the vicinity">> @@
             "MI" :> <<"Shallow funnel cloud">> @@
             "BC" :> <<"Patches of funnel cloud">> @@
             "PR" :> <<"Partial funnel cloud">> @@
             "BL" :> <<"Funnel cloud w/ wind">> @@
             "DR" :> <<"Drifting funnel cloud">>)]

CLOUDTYPES ==
    "ACC" :> "altocumulus castellanus" @@
    "ACSL" :> "standing lenticular altocumulus" @@
    "CB" :> "cumulonimbus" @@
    "CBMAM" :> "cumulonimbus mammatus" @@
    "CCSL" :> "standing lenticular cirrocumulus" @@
    "CU" :> "cumulus" @@
    "SCSL" :> "standing lenticular stratocumulus" @@
    "SC" :> "stratocumulus" @@
    "TCU" :> "towering cumulus"

\* ------------------------------------------------------------------------
\* WeatherReport
\* ------------------------------------------------------------------------

\* The attributes _clearallfields sets to None, and the parsed flag.
Cleared ==
    [parsed |-> FALSE,
     FullReport |-> None, ReportURL |-> None, StationID |-> None,
     StationName |-> None, StationCity |-> None, StationCountry |-> None,
     StationLatitude |-> None, StationLongitude |-> None, StationAltitude |-> None,
     Cycle |-> None, Time |-> None, Weather |-> None, Humidity |-> None,
     Pixmap |-> None,
     TemperatureCelsius |-> None, TemperatureFahrenheit |-> None,
     DewPointCelsius |-> None, DewPointFahrenheit |-> None,
     WindSpeedMilesPerHour |-> None, WindSpeedKnots |-> None,
     WindDirection |-> None, WindCompass |-> None,
     VisibilityMiles |-> None, PressurehPa |-> None, PressureInHg |-> None,
     RawMetarCode |-> None, SkyConditions |-> None, Conditions |-> None,
     Cloudinfo |-> None, Cloudtype |-> None,
     _w_chill |-> None, _w_chillf |-> None]

\* WeatherReport(MetarStationCode, url, report)
New(MetarStationCode, url, report) ==
    [Cleared EXCEPT !.StationID = MetarStationCode, !.ReportURL = url,
                    !.FullReport = report]

\* The outcome of a call on an observation: the observation as the call leaves
\* it, the exception that ended it ("none": it returned) and what it returned.
Ret(self, v) == [wr |-> self, exc |-> "none", ret |-> v]

Ok(self) == Ret(self, None)

Raise(self, e) == [wr |-> self, exc |-> e, ret |-> None]

\* --- the station line -------------------------------------------------

\* alt = int(alt[:-1]), None on ValueError
Altitude(alt) ==
    IF ParseInt(DropLast(alt)).ok THEN Some(ParseInt(DropLast(alt)).v) ELSE None

\* StationFields without the replacement of letter O by digit 0: a variant
\* of which C7 does not hold
StationFields_NoReplace(self, loc, rcity, rcoun, toks) ==
    IF Len(toks) # 3 THEN Raise(self, "ValueError")
    ELSE Ok([self EXCEPT !.StationCity = Some(Reverse(Strip(rcity))),
                         !.StationCountry = Some(Reverse(Strip(rcoun))),
                         !.StationName = Some(loc),
                         !.StationLatitude = Some(toks[1]),
                         !.StationLongitude = Some(toks[2]),
                         !.StationAltitude = Altitude(toks[3])])

\* lat, lng, alt = coords.split()[1:4] and the six assignments
StationFields(self, loc, rcity, rcoun, toks) ==
    IF Len(toks) # 3 THEN Raise(self, "ValueError")
    ELSE Ok([self EXCEPT !.StationCity = Some(Reverse(Strip(rcity))),
                         !.StationCountry = Some(Reverse(Strip(rcoun))),
                         !.StationName = Some(loc),
                         !.StationLatitude = Some(Replace(toks[1], "O", "0")),
                         !.StationLongitude = Some(Replace(toks[2], "O", "0")),
                         !.StationAltitude = Altitude(Replace(toks[3], "O", "0"))])

\* rcoun, rcity = rloc.split(",", 1); without a comma the except arm takes
\* the whole of data for the coordinates
StationCoords(self, data, id_offset, loc, rparts) ==
    IF Len(rparts) = 2
    THEN StationFields(self, loc, rparts[2], rparts[1],
                       Slice(SplitWS(From(data, id_offset), -1), 1, 4))
    ELSE StationFields(self, loc, "", "", Slice(SplitWS(data, -1), 1, 4))

\* StationAt splitting the location at its first comma: a variant of which
\* C19 does not hold
StationAt_FirstComma(self, data, id_offset) ==
    StationCoords(self, data, id_offset, Strip(Slice(data, 0, id_offset)),
                  IF Len(SplitSep(Strip(Slice(data, 0, id_offset)), ",", 1)) = 2
                  THEN <<Reverse(SplitSep(Strip(Slice(data, 0, id_offset)), ",", 1)[2]),
                         Reverse(SplitSep(Strip(Slice(data, 0, id_offset)), ",", 1)[1])>>
                  ELSE <<Reverse(Strip(Slice(data, 0, id_offset)))>>)

\* id_offset = header.find("(" + self.StationID + ")"); loc = data[:id_offset]
StationAt(self, data, id_offset) ==
    StationCoords(self, data, id_offset, Strip(Slice(data, 0, id_offset)),
                  SplitSep(Reverse(Strip(Slice(data, 0, id_offset))), ",", 1))

StationLine(self, header, data) ==
    StationAt(self, data, Find(header, "(" \o Val(self.StationID) \o ")"))

\* --- date and time ----------------------------------------------------

\* rtime = data.split("/")[1]; self.Time = rtime.strip()
TimeLine(self, data) ==
    IF Len(SplitSep(data, "/", -1)) < 2 THEN Raise(self, "IndexError")
    ELSE Ok([self EXCEPT !.Time = Some(Strip(SplitSep(data, "/", -1)[2]))])

\* --- Temperature, Windchill, Dew Point --------------------------------

\* The two float() calls and assignments of a "<n> F (<n> C)" line, to the
\* attributes ffield and cfield: the first value is assigned before the second
\* is converted.
FahrenheitCelsiusOf(self, ffield, cfield, fnht, cels) ==
    IF ~fnht.ok THEN Raise(self, "ValueError")
    ELSE IF ~cels.ok THEN Raise([self EXCEPT ![ffield] = Some(fnht.v)], "ValueError")
    ELSE Ok([self EXCEPT ![ffield] = Some(fnht.v), ![cfield] = Some(cels.v)])

\* fnht, cels = data.split(None, 3)[0:3:2]
FahrenheitCelsius(self, ffield, cfield, toks) ==
    IF Len(toks) < 3 THEN Raise(self, "ValueError")
    ELSE FahrenheitCelsiusOf(self, ffield, cfield,
                             ParseFloat(toks[1]), ParseFloat(From(toks[3], 1)))

TemperatureLine(self, data) ==
    FahrenheitCelsius(self, "TemperatureFahrenheit", "TemperatureCelsius",
                      SplitWS(data, 3))

WindchillLine(self, data) ==
    FahrenheitCelsius(self, "_w_chillf", "_w_chill", SplitWS(data, 3))

DewPointLine(self, data) ==
    FahrenheitCelsius(self, "DewPointFahrenheit", "DewPointCelsius", SplitWS(data, 3))

\* --- Wind -------------------------------------------------------------

WindCalm(self) ==
    Ok([self EXCEPT !.WindSpeedKnots = Some(D(0, 0)),
                    !.WindSpeedMilesPerHour = Some(D(0, 0)),
                    !.WindDirection = None, !.WindCompass = None])

WindVariableOf(self, kt, speed) ==
    IF ~kt.ok THEN Raise(self, "ValueError")
    ELSE IF ~speed.ok
         THEN Raise([self EXCEPT !.WindSpeedKnots = Some(D(kt.v, 0))], "ValueError")
    ELSE Ok([self EXCEPT !.WindSpeedKnots = Some(D(kt.v, 0)),
                         !.WindSpeedMilesPerHour = Some(D(speed.v, 0)),
                         !.WindDirection = None, !.WindCompass = None])

\* speed = data.split(" ", 3)[2]; int(data.split(" ", 5)[4][1:]); int(speed)
WindVariable(self, data) ==
    IF Len(SplitSep(data, " ", 3)) < 3 \/ Len(SplitSep(data, " ", 5)) < 5
    THEN Raise(self, "IndexError")
    ELSE WindVariableOf(self, ParseInt(From(SplitSep(data, " ", 5)[5], 1)),
                        ParseInt(SplitSep(data, " ", 3)[3]))

WindFromOf(self, comp, deg, kt, speed) ==
    IF ~deg.ok THEN Raise(self, "ValueError")
    ELSE IF ~kt.ok
         THEN Raise([self EXCEPT !.WindDirection = Some(deg.v),
                                 !.WindCompass = Some(comp)], "ValueError")
    ELSE IF ~speed.ok
         THEN Raise([self EXCEPT !.WindDirection = Some(deg.v),
                                 !.WindCompass = Some(comp),
                                 !.WindSpeedKnots = Some(D(kt.v, 0))], "ValueError")
    ELSE Ok([self EXCEPT !.WindDirection = Some(deg.v),
                         !.WindCompass = Some(comp),
                         !.WindSpeedKnots = Some(D(kt.v, 0)),
                         !.WindSpeedMilesPerHour = Some(D(speed.v, 0))])

\* fields = data.split(" ", 9)[0:9] and the reads of fields[2], [3], [6], [8]
WindFromFields(self, fields) ==
    IF Len(fields) < 9 THEN Raise(self, "IndexError")
    ELSE WindFromOf(self, Strip(fields[3]), ParseInt(From(fields[4], 1)),
                    ParseInt(From(fields[9], 1)), ParseInt(fields[7]))

\* The if chain of the Wind line
WindLine(self, data) ==
    IF In("Calm", data) THEN WindCalm(self)
    ELSE IF In("Variable", data) THEN WindVariable(self, data)
    ELSE WindFromFields(self, Slice(SplitSep(data, " ", 9), 0, 9))

\* --- Visibility, Relative Humidity, Pressure, cycle --------------------

\* The loop over data.split() leaves at its first group either way.
VisibilityGroups(self, groups) ==
    IF Len(groups) = 0 \/ ~ParseFloat(groups[1]).ok THEN Ok(self)
    ELSE Ok([self EXCEPT !.VisibilityMiles = Some(ParseFloat(groups[1]).v)])

VisibilityLine(self, data) == VisibilityGroups(self, SplitWS(data, -1))

\* self.Humidity = int(data.split("%", 1)[0])
HumidityLine(self, data) ==
    IF ParseInt(SplitSep(data, "%", 1)[1]).ok
    THEN Ok([self EXCEPT !.Humidity = Some(ParseInt(SplitSep(data, "%", 1)[1]).v)])
    ELSE Raise(self, "ValueError")

\* self.PressureInHg = float(press[0]); self.PressurehPa = float(press[-2][1:])
PressureInHgOf(self, press, inhg) ==
    IF ~inhg.ok THEN Raise(self, "ValueError")
    ELSE IF Len(press) < 2
         THEN Raise([self EXCEPT !.PressureInHg = Some(inhg.v)], "IndexError")
    ELSE IF ~ParseFloat(From(press[Len(press) - 1], 1)).ok
         THEN Raise([self EXCEPT !.PressureInHg = Some(inhg.v)], "ValueError")
    ELSE Ok([self EXCEPT !.PressureInHg = Some(inhg.v),
                         !.PressurehPa =
                             Some(ParseFloat(From(press[Len(press) - 1], 1)).v)])

\* press = data.split(); float(press[0])
PressureLine(self, data) ==
    IF Len(SplitWS(data, -1)) = 0 THEN Raise(self, "IndexError")
    ELSE PressureInHgOf(self, SplitWS(data, -1), ParseFloat(SplitWS(data, -1)[1]))

\* self.Cycle = int(data), 0 on ValueError
CycleLine(self, data) ==
    Ok([self EXCEPT !.Cycle = Some(IF ParseInt(data).ok THEN ParseInt(data).v ELSE 0)])

\* --- the loop over the lines ------------------------------------------

\* The if/elif chain of _parse_report on a line's stripped header and data
Classify(self, header, data) ==
    IF In("(" \o Val(self.StationID) \o ")", header) THEN StationLine(self, header, data)
    ELSE IF In(" UTC", data) /\ ~In(Val(self.StationID), data) THEN TimeLine(self, data)
    ELSE IF header = "Temperature" THEN TemperatureLine(self, data)
    ELSE IF header = "Windchill" THEN WindchillLine(self, data)
    ELSE IF header = "Wind" THEN WindLine(self, data)
    ELSE IF header = "Visibility" THEN VisibilityLine(self, data)
    ELSE IF header = "Dew Point" THEN DewPointLine(self, data)
    ELSE IF header = "Relative Humidity" THEN HumidityLine(self, data)
    ELSE IF header = "Pressure (altimeter)" THEN PressureLine(self, data)
    ELSE IF header = "Weather" THEN Ok([self EXCEPT !.Weather = Some(data)])
    ELSE IF header = "Sky conditions" THEN Ok([self EXCEPT !.SkyConditions = Some(data)])
    ELSE IF header = "ob" THEN Ok([self EXCEPT !.RawMetarCode = Some(Strip(data))])
    ELSE IF header = "cycle" THEN CycleLine(self, data)
    ELSE Ok(self)

\* header, data = line.split(":", 1), both the line when it has no colon
HeaderData(self, line, parts) ==
    IF Len(parts) = 2 THEN Classify(self, Strip(parts[1]), Strip(parts[2]))
    ELSE Classify(self, Strip(line), Strip(line))

\* One pass of the for loop of _parse_report.  A StationID of None fails in
\* "(" + self.StationID + ")".
ParseLine(self, line) ==
    IF IsNone(self.StationID) THEN Raise(self, "TypeError")
    ELSE HeaderData(self, line, SplitSep(line, ":", 1))

\* The for loop of _parse_report over lines[i..]: an exception leaves the loop
\* with the assignments made so far.
RECURSIVE ParseLines(_, _, _)
AfterLine(r, lines, i) == IF r.exc # "none" THEN r ELSE ParseLines(r.wr, lines, i + 1)

ParseLines(self, lines, i) ==
    IF i > Len(lines) THEN Ok(self) ELSE AfterLine(ParseLine(self, lines[i]), lines, i)

\* ------------------------------------------------------------------------
\* The encoded report (RawMetarCode)
\* ------------------------------------------------------------------------

Coverages == {"CAVOK", "CLR", "SKC", "BKN", "SCT", "FEW", "OVC", "NSC"}

CloudSuffixes == {"TCU", "CU", "CB", "SC", "CBMAM", "ACC", "SCSL", "CCSL", "ACSL"}

Qualifiers == {"VC", "MI", "BC", "PR", "TS", "BL", "SH", "DR", "FZ"}

Phenomena ==
    {"DZ", "RA", "SN", "SG", "IC", "PE", "GR", "GS", "UP", "BR", "FG", "FU",
     "VA", "SA", "HZ", "PY", "DU", "SQ", "SS", "DS", "PO", "FC", "+FC"}

\* CLOUD_RE_STR matches the whole of w
MatchesCloud(w) ==
    \E c \in Coverages, t \in CloudSuffixes \cup {""} :
        /\ Len(w) >= Len(c) + Len(t)
        /\ SubSeq(w, 1, Len(c)) = c
        /\ SubSeq(w, Len(w) - Len(t) + 1, Len(w)) = t
        /\ Len(w) - Len(t) - Len(c) \in {0, 3}
        /\ AllDigits(SubSeq(w, Len(c) + 1, Len(w) - Len(t)))

\* COND_RE_STR matches the whole of w
MatchesCond(w) ==
    \E s \in {"", "-", "+"}, q \in Qualifiers \cup {""}, p \in Phenomena :
        w = s \o q \o p

\* The groups a grammar matches, in the order of the encoded report
RECURSIVE Matching(_, _)
Matching(groups, cloud) ==
    IF Len(groups) = 0 THEN <<>>
    ELSE (IF (IF cloud THEN MatchesCloud(Head(groups)) ELSE MatchesCond(Head(groups)))
          THEN <<Head(groups)>> ELSE <<>>) \o Matching(Tail(groups), cloud)

\* _match_WeatherPart(CLOUD_RE_STR) when cloud, _match_WeatherPart(COND_RE_STR)
\* otherwise
match_WeatherPart(self, cloud) ==
    IF IsNone(self.RawMetarCode) THEN <<>>
    ELSE Matching(SplitWS(Val(self.RawMetarCode), -1), cloud)

\* The if/elif chain of _extractCloudInformation on wcloud[:3], from the
\* guesses made so far
SkyType(stype, g) ==
    IF stype \in {"CLR", "SKC", "CAV", "NSC"}
    THEN [g EXCEPT !.skytype = Some("Clear sky"), !.pixmap = Some("sun")]
    ELSE IF stype = "BKN"
    THEN [g EXCEPT !.skytype = Some("Broken clouds"), !.pixmap = Some("suncloud")]
    ELSE IF stype = "SCT"
    THEN [g EXCEPT !.skytype = Some("Scattered clouds"), !.pixmap = Some("suncloud")]
    ELSE IF stype = "FEW"
    THEN [g EXCEPT !.skytype = Some("Few clouds"), !.pixmap = Some("suncloud")]
    ELSE IF stype = "OVC"
    THEN [g EXCEPT !.skytype = Some("Overcast"), !.pixmap = Some("cloud")]
    ELSE g

\* if ctype is None: ctype = CLOUDTYPES.get(wcloud[6:], None)
CloudType(suffix, g) ==
    IF IsNone(g.ctype) /\ suffix \in DOMAIN CLOUDTYPES
    THEN [g EXCEPT !.ctype = Some(CLOUDTYPES[suffix])]
    ELSE g

\* The loop of _extractCloudInformation
RECURSIVE CloudLoop(_, _)
CloudLoop(matches, g) ==
    IF Len(matches) = 0 THEN g
    ELSE CloudLoop(Tail(matches),
                   CloudType(From(Head(matches), 6),
                             SkyType(Slice(Head(matches), 0, 3), g)))

\* _extractCloudInformation
extractCloudInformation(self) ==
    CloudLoop(match_WeatherPart(self, TRUE),
              [skytype |-> None, ctype |-> None, pixmap |-> None])

\* if len(wcond) > 3 and wcond.startswith(('+', '-')): wcond = wcond[1:]
Unsign(wcond) == IF Len(wcond) > 3 /\ Signed(wcond) THEN From(wcond, 1) ELSE wcond

\* pphen
QualifierLength(wcond) == IF Signed(wcond) THEN 1 ELSE IF Len(wcond) < 4 THEN 0 ELSE 2

\* The pair returned for a phenomenon and the entry found for its qualifier
Described(phenomenon, pheninfo) ==
    IF Len(pheninfo) = 1
    THEN Some(<<Some(pheninfo[1]), Some(phenomenon.pixmap)>>)
    ELSE Some(<<Some(pheninfo[1]), Some(pheninfo[2])>>)

\* pheninfo = phenomenon.get(squal, name)
PhenInfo(phenomenon, squal) ==
    Described(phenomenon,
              IF squal \in DOMAIN phenomenon.quals THEN phenomenon.quals[squal]
              ELSE <<phenomenon.name>>)

\* The loop of _extractSkyConditions: None, or Some(<<description, pixmap>>)
RECURSIVE CondLoop(_)
CondLookup(squal, sphen, rest) ==
    IF sphen \in DOMAIN WEATHER_CONDITIONS
    THEN PhenInfo(WEATHER_CONDITIONS[sphen], squal)
    ELSE CondLoop(rest)

\* squal = wcond[:pphen]; sphen = wcond[pphen: pphen + 4]
CondGroup(wcond, rest) ==
    CondLookup(Slice(wcond, 0, QualifierLength(wcond)),
               Slice(wcond, QualifierLength(wcond), QualifierLength(wcond) + 4), rest)

\* The loop of _extractSkyConditions deciding by the last match: a variant of
\* which C15 does not hold
CondLoop_Last(matches) ==
    IF Len(matches) = 0 THEN None
    ELSE CondGroup(Unsign(matches[Len(matches)]), <<>>)

CondLoop(matches) ==
    IF Len(matches) = 0 THEN None ELSE CondGroup(Unsign(Head(matches)), Tail(matches))

\* _extractSkyConditions
extractSkyConditions(self) == CondLoop(match_WeatherPart(self, FALSE))

\* (conditions, condpixmap) = conditions, or (None, None)
CondPair(conditions) == IF IsNone(conditions) THEN <<None, None>> ELSE Val(conditions)

\* _parse_report after its loop: the cloud type, Cloudinfo, Conditions, the
\* weather text, the pixmap and the parsed flag
Fill(self, cloud, cond) ==
    [self EXCEPT !.Cloudtype = IF IsNone(@) THEN cloud.ctype ELSE @,
                 !.Cloudinfo = Some(<<cloud.skytype, cloud.pixmap>>),
                 !.Conditions = Some(cond),
                 !.Weather = Or(@, Or(cond[1], cloud.skytype)),
                 !.Pixmap = Or(cond[2], cloud.pixmap),
                 !.parsed = TRUE]

Complete(self) ==
    Fill(self, extractCloudInformation(self), CondPair(extractSkyConditions(self)))

AfterLines(r) == IF r.exc # "none" THEN r ELSE Ok(Complete(r.wr))

\* _parse_report without its test for a missing report: a variant of which
\* C4 does not hold
parse_report_Unchecked(self) ==
    IF IsNone(self.FullReport) THEN Raise(self, "AttributeError")
    ELSE IF IsBytes(self.FullReport) THEN Raise(self, "GarbledReportException")
    ELSE AfterLines(ParseLines(self, SplitSep(Val(self.FullReport), "\n", -1), 1))

\* _parse_report
parse_report(self) ==
    IF IsNone(self.FullReport) THEN Raise(self, "EmptyReportException")
    ELSE IF IsBytes(self.FullReport) THEN Raise(self, "GarbledReportException")
    ELSE AfterLines(ParseLines(self, SplitSep(Val(self.FullReport), "\n", -1), 1))

\* ParseReport without its test of the parsed flag: a variant of which C1
\* does not hold
ParseReport_Unguarded(self) == parse_report(self)

\* ParseReport
ParseReport(self) == IF ~self.parsed THEN parse_report(self) ELSE Ok(self)

\* ------------------------------------------------------------------------
\* Derived accessors
\* ------------------------------------------------------------------------

\* WindSpeedMPS
WindSpeedMPS(self) ==
    IF IsNone(self.WindSpeedMilesPerHour) THEN None
    ELSE Some(DecMul(Val(self.WindSpeedMilesPerHour), D(44704, 5)))

\* The wind-chill expression of _calc_w_chill.  kph ** 0.16 is no decimal, so
\* the value is kept as the expression applied to its two arguments.
ChillCelsius(C, kph) ==
    [formula |-> "13.12 + 0.6215*C - 11.37*kph**0.16 + 0.3965*C*kph**0.16",
     C |-> C, kph |-> kph]

\* The if of _calc_w_chill
ChillRule(C, ws, kph) ==
    IF ~IsNone(C) /\ ~IsNone(ws) /\ DecLE(Val(C), D(10, 0)) /\ DecGT(kph, D(48, 1))
    THEN Some(ChillCelsius(Val(C), kph))
    ELSE C

\* C = self.TemperatureCelsius; ws = self.WindSpeedMPS; kph = (ws or 0) * 3.6
ChillOf(C, ws) ==
    ChillRule(C, ws, DecMul(IF IsNone(ws) THEN D(0, 0) ELSE Val(ws), D(36, 1)))

SetChill(self, v) == Ret([self EXCEPT !._w_chill = v], v)

\* _calc_w_chill
calc_w_chill(self) == SetChill(self, ChillOf(self.TemperatureCelsius, WindSpeedMPS(self)))

\* WindchillCelsius computed at every read: a variant of which C8 does not
\* hold
WindchillCelsius_Uncached(self) == calc_w_chill(self)

\* WindchillCelsius
WindchillCelsius(self) ==
    IF IsNone(self._w_chill) THEN calc_w_chill(self) ELSE Ret(self, self._w_chill)

\* The wind-chill expression of _calc_w_chillf
ChillFahrenheit(F, mph) ==
    [formula |-> "35.74 + 0.6215*F - 35.75*mph**0.16 + 0.4275*F*mph**0.16",
     F |-> F, mph |-> mph]

\* The if of _calc_w_chillf, mph = ws or 0
ChillRuleF(F, ws, mph) ==
    IF ~IsNone(F) /\ ~IsNone(ws) /\ DecLE(Val(F), D(50, 0)) /\ DecGT(mph, D(3, 0))
    THEN Some(ChillFahrenheit(Val(F), mph))
    ELSE F

ChillOfF(F, ws) == ChillRuleF(F, ws, IF IsNone(ws) THEN D(0, 0) ELSE Val(ws))

\* SetChillF writing both wind-chill slots: a variant of which C12 does not
\* hold
SetChillF_Both(self, v) == Ret([self EXCEPT !._w_chillf = v, !._w_chill = v], v)

SetChillF(self, v) == Ret([self EXCEPT !._w_chillf = v], v)

\* _calc_w_chillf
calc_w_chillf(self) ==
    SetChillF(self, ChillOfF(self.TemperatureFahrenheit, self.WindSpeedMilesPerHour))

\* WindchillFahrenheit
WindchillFahrenheit(self) ==
    IF IsNone(self._w_chillf) THEN calc_w_chillf(self) ELSE Ret(self, self._w_chillf)

\* "%s-%s-%s %s:%s:00Z" % (year, month, day, hour[:2], hour[2:4])
IsoOfDate(ymd, hour) ==
    IF Len(ymd) # 3 THEN [exc |-> "ValueError", ret |-> None]
    ELSE [exc |-> "none",
          ret |-> Some(ymd[1] \o "-" \o ymd[2] \o "-" \o ymd[3] \o " " \o
                       Slice(hour, 0, 2) \o ":" \o Slice(hour, 2, 4) \o ":00Z")]

\* (date, hour) = metardate.split()[:2]
IsoOfTokens(toks) ==
    IF Len(toks) # 2 THEN [exc |-> "ValueError", ret |-> None]
    ELSE IsoOfDate(SplitSep(toks[1], ".", -1), toks[2])

\* _metar_to_iso8601
metar_to_iso8601(metardate) ==
    IF ~Truthy(metardate) THEN [exc |-> "none", ret |-> None]
    ELSE IsoOfTokens(Slice(SplitWS(Val(metardate), -1), 0, 2))

\* The outcome of an accessor that leaves the observation as it is
Accessor(self, r) == [wr |-> self, exc |-> r.exc, ret |-> r.ret]

\* ISOTime
ISOTime(self) == Accessor(self, metar_to_iso8601(self.Time))

\* The sum of _parse_lat_long in units of 1 / (3600 * 10^e) degrees
Coords(nums, e) ==
    DecScale(nums[1].v, e) * 3600
    + (IF Len(nums) > 1 THEN DecScale(nums[2].v, e) * 60 ELSE 0)
    + (IF Len(nums) > 2 THEN DecScale(nums[3].v, e) ELSE 0)

\* The float _parse_lat_long returns, kept exactly as the fraction num / den
LatLongValue(compass_dir, nums, e) ==
    [num |-> IF In(compass_dir, "WS") THEN -Coords(nums, e) ELSE Coords(nums, e),
     den |-> 3600 * Pow10(e)]

\* The float() calls on up to three elements
LatLongOf(compass_dir, nums) ==
    IF \E i \in 1..Len(nums) : ~nums[i].ok THEN [exc |-> "ValueError", ret |-> None]
    ELSE [exc |-> "none",
          ret |-> Some(LatLongValue(compass_dir, nums,
                                    MaxOf({nums[i].v.e : i \in 1..Len(nums)})))]

\* compass_dir = elements[-1][-1]; elements[-1] = elements[-1][:-1]
LatLongElements(elements) ==
    IF Len(elements[Len(elements)]) = 0 THEN [exc |-> "IndexError", ret |-> None]
    ELSE LatLongOf(Ch(elements[Len(elements)], Len(elements[Len(elements)])),
                   [i \in 1..(IF Len(elements) > 3 THEN 3 ELSE Len(elements)) |->
                       ParseFloat(IF i = Len(elements)
                                  THEN DropLast(elements[Len(elements)])
                                  ELSE elements[i])])

\* _parse_lat_long
parse_lat_long(latlong) ==
    IF ~Truthy(latlong) THEN [exc |-> "none", ret |-> None]
    ELSE LatLongElements(SplitSep(Strip(ToUpper(Val(latlong))), "-", -1))

\* StationLatitudeFloat
StationLatitudeFloat(self) == Accessor(self, parse_lat_long(self.StationLatitude))

\* StationLongitudeFloat
StationLongitudeFloat(self) == Accessor(self, parse_lat_long(self.StationLongitude))

\* PressuremmHg: self.PressureInHg * 25.4000, a TypeError when it is None
PressuremmHg(self) ==
    IF IsNone(self.PressureInHg) THEN Raise(self, "TypeError")
    ELSE Ret(self, Some(DecMul(Val(self.PressureInHg), D(254, 1))))

\* WindSpeedBeaufort: round((w / 0.8359648) ** (2 / 3.0)) of w = mph * 0.44704.
\* 0.8359648 = 1.87 * 0.44704, so the result is the number of n >= 1 with
\* (mph / 1.87)^2 >= (n - 0.5)^3, that is mph^2 * 80000 >= (2n - 1)^3 * 34969
\* (no tie: one side is even, the other odd).  A negative base gives a complex
\* power, which round() refuses.  Speeds up to 160 mph.
WindSpeedBeaufort(self) ==
    IF IsNone(WindSpeedMPS(self)) THEN Ret(self, None)
    ELSE IF Val(self.WindSpeedMilesPerHour).m < 0 THEN Raise(self, "TypeError")
    ELSE Ret(self, Some(Cardinality({n \in 1..20 :
             Val(self.WindSpeedMilesPerHour).m * Val(self.WindSpeedMilesPerHour).m
               * 80000
             >= (2 * n - 1) * (2 * n - 1) * (2 * n - 1) * 34969
                * Pow10(2 * Val(self.WindSpeedMilesPerHour).e)})))

\* str(n) of an int
RECURSIVE Str(_)
Str(n) ==
    IF n < 0 THEN "-" \o Str(-n)
    ELSE IF n < 10 THEN Slice("0123456789", n, n + 1)
    ELSE Str(n \div 10) \o Slice("0123456789", n % 10, (n % 10) + 1)

\* StationPosition: (StationLatitude, StationLongitude, str(StationAltitude));
\* str(None) is the text "None"
StationPosition(self) ==
    Ret(self, Some(<<self.StationLatitude, self.StationLongitude,
                     IF IsNone(self.StationAltitude) THEN "None"
                     ELSE Str(Val(self.StationAltitude))>>))

\* ApparentTemperatureCelsius.  2.71828 ** x is no decimal, so the value is
\* kept as the expression applied to its three arguments.
ApparentTemperatureCelsius(self) ==
    IF IsNone(self.TemperatureCelsius) \/ IsNone(WindSpeedMPS(self))
       \/ IsNone(self.Humidity)
    THEN Ret(self, None)
    ELSE Ret(self, Some(
             [formula |-> "C + 0.33*e - 0.7*mps - 4.0 with "
                          \o "e = rh/100*6.105*2.71828**((17.27*C)/(237.7 + C))",
              C |-> Val(self.TemperatureCelsius), mps |-> Val(WindSpeedMPS(self)),
              rh |-> Val(self.Humidity)]))

\* ApparentTemperatureFahrenheit: C * 1.8 + 32 of the Celsius value
ApparentTemperatureFahrenheit(self) ==
    IF IsNone(ApparentTemperatureCelsius(self).ret) THEN Ret(self, None)
    ELSE Ret(self, Some([formula |-> "C*1.8 + 32",
                         C |-> Val(ApparentTemperatureCelsius(self).ret)]))

\* ------------------------------------------------------------------------
\* Fetching: the network, the cache files under /tmp and the clock
\* ------------------------------------------------------------------------

DaysIn(y, m) ==
    IF m = 2 THEN (IF (y % 4 = 0 /\ y % 100 # 0) \/ y % 400 = 0 THEN 29 ELSE 28)
    ELSE IF m \in {4, 6, 9, 11} THEN 30 ELSE 31

\* Days from 1970-01-01 to the day doy of the year yy that starts in March
DaysOfEra(era, yoe, doy) ==
    era * 146097 + yoe * 365 + yoe \div 4 - yoe \div 100 + doy - 719468

DaysFromCivil(y, m, d) ==
    DaysOfEra((IF m <= 2 THEN y - 1 ELSE y) \div 400,
              (IF m <= 2 THEN y - 1 ELSE y) % 400,
              (153 * (IF m > 2 THEN m - 3 ELSE m + 9) + 2) \div 5 + d - 1)

\* Seconds from 1970-01-01 00:00 UTC
Timestamp(y, m, d, hh, mm) == (DaysFromCivil(y, m, d) * 24 + hh) * 3600 + mm * 60

TwoDigits(s) == Len(s) = 2 /\ AllDigits(s)

\* datetime.fromisoformat accepts "YYYY-MM-DD HH:MM:00+00:00"
DateValid(ys, ms, ds, hh, mi) ==
    /\ Len(ys) = 4 /\ AllDigits(ys) /\ DigitsVal(ys) >= 1
    /\ TwoDigits(ms) /\ DigitsVal(ms) \in 1..12
    /\ TwoDigits(ds) /\ DigitsVal(ds) >= 1
    /\ DigitsVal(ds) <= DaysIn(DigitsVal(ys), DigitsVal(ms))
    /\ TwoDigits(hh) /\ DigitsVal(hh) \in 0..23
    /\ TwoDigits(mi) /\ DigitsVal(mi) \in 0..59

\* (year, month, day) = date.split('.') and the datetime, in seconds since 1970
DateOf(ymd, hh, mi) ==
    IF Len(ymd) # 3 THEN [exc |-> "ValueError", ret |-> None]
    ELSE IF DateValid(ymd[1], ymd[2], ymd[3], hh, mi)
    THEN [exc |-> "none",
          ret |-> Some(Timestamp(DigitsVal(ymd[1]), DigitsVal(ymd[2]), DigitsVal(ymd[3]),
                                 DigitsVal(hh), DigitsVal(mi)))]
    ELSE [exc |-> "ValueError", ret |-> None]

\* (date, hour) = metardate.split()[:2]
DateOfTokens(toks) ==
    IF Len(toks) # 2 THEN [exc |-> "ValueError", ret |-> None]
    ELSE DateOf(SplitSep(toks[1], ".", -1), Slice(toks[2], 0, 2), Slice(toks[2], 2, 4))

\* _metar_to_date: ret None when the function falls off its end (an empty
\* metardate)
metar_to_date(metardate) ==
    IF metardate = "" THEN [exc |-> "none", ret |-> None]
    ELSE DateOfTokens(Slice(SplitWS(metardate, -1), 0, 2))

CachePath(stationid) == "/tmp/" \o stationid \o ".TXT"

\* return the cache version if recent enough
CacheFresh(rep, path, date, now) ==
    IF date.exc # "none" THEN [exc |-> date.exc, ret |-> None]
    ELSE IF IsNone(date.ret) THEN [exc |-> "TypeError", ret |-> None]
    ELSE IF now - Val(date.ret) < 3900
    THEN [exc |-> "none", ret |-> Some(rep \o "\ncache: " \o path)]
    ELSE [exc |-> "none", ret |-> None]

\* metardate = l.split("/")[1].strip()
CacheDate(rep, path, parts, now) ==
    IF Len(parts) < 2 THEN [exc |-> "IndexError", ret |-> None]
    ELSE CacheFresh(rep, path, metar_to_date(Strip(parts[2])), now)

\* l = next(lines); l = next(lines)
CacheLines(rep, path, lines, now) ==
    IF Len(lines) < 2 THEN [exc |-> "StopIteration", ret |-> None]
    ELSE CacheDate(rep, path, SplitSep(lines[2], "/", -1), now)

\* _cache(stationid): load the cached report.  files: path -> text of the
\* files under /tmp; now: the clock, in seconds since 1970.
cache_load(files, stationid, now) ==
    IF CachePath(stationid) \notin DOMAIN files THEN [exc |-> "none", ret |-> None]
    ELSE CacheLines(files[CachePath(stationid)], CachePath(stationid),
                    SplitSep(files[CachePath(stationid)], "\n", -1), now)

\* _cache(stationid, report): save a report; an empty report is not saved but
\* looked up, and what the lookup returns is dropped.
cache_save(files, stationid, report, now) ==
    IF report # ""
    THEN [exc |-> "none",
          files |-> [p \in DOMAIN files \cup {CachePath(stationid)} |->
                        IF p = CachePath(stationid) THEN report ELSE files[p]]]
    ELSE [exc |-> cache_load(files, stationid, now).exc, files |-> files]

BaseURL == "https://tgftp.nws.noaa.gov/data/observations/metar/decoded/"

\* reporturl = "%s%s.TXT" % (baseurl, stationid)
ReportURLOf(stationid) == BaseURL \o stationid \o ".TXT"

\* _fetch raising e
FetchFail(e, files) == [exc |-> e, ret |-> <<>>, files |-> files]

\* _cache(stationid, rep); return stationid, reporturl, rep
FetchSaved(sid, rep, saved, files) ==
    IF saved.exc # "none" THEN FetchFail(saved.exc, files)
    ELSE [exc |-> "none", ret |-> <<Some(sid), Some(ReportURLOf(sid)), Some(rep)>>,
          files |-> saved.files]

\* fn = requests.get(reporturl); rep = fn.text.strip()
FetchGet(sid, files, now, response, rep) ==
    IF response.status_code # 200 THEN FetchFail("NetworkException", files)
    ELSE FetchSaved(sid, rep, cache_save(files, sid, rep, now), files)

\* rep = _cache(stationid); if rep: return stationid, reporturl, rep
FetchCached(sid, files, now, response, cached) ==
    IF cached.exc # "none" THEN FetchFail(cached.exc, files)
    ELSE IF Truthy(cached.ret)
    THEN [exc |-> "none", ret |-> <<Some(sid), Some(ReportURLOf(sid)), cached.ret>>,
          files |-> files]
    ELSE FetchGet(sid, files, now, response, Strip(response.text))

\* _fetch(stationid).  response: what requests.get answers, [status_code, text].
\* The outcome: the exception, the tuple returned, the files as it leaves them.
fetch(stationid, files, now, response) ==
    IF IsNone(stationid) THEN FetchFail("AttributeError", files)
    ELSE FetchCached(ToUpper(Val(stationid)), files, now, response,
                     cache_load(files, ToUpper(Val(stationid)), now))

\* The assignment of FetchReport preceded by _clearallfields: a variant of
\* which C11 does not hold
Fetched_Cleared(self, f, files) ==
    IF f.exc # "none" THEN [wr |-> self, exc |-> f.exc, files |-> files]
    ELSE [wr |-> New(f.ret[1], f.ret[2], f.ret[3]), exc |-> "none", files |-> f.files]

\* self.StationID, self.ReportURL, self.FullReport = _fetch(self.StationID)
Fetched(self, f, files) ==
    IF f.exc # "none" THEN [wr |-> self, exc |-> f.exc, files |-> files]
    ELSE [wr |-> [self EXCEPT !.StationID = f.ret[1], !.ReportURL = f.ret[2],
                              !.FullReport = f.ret[3]],
          exc |-> "none", files |-> f.files]

\* FetchReport fetching only when FullReport is missing: a variant of which
\* C10 does not hold
FetchReport_OnlyIfAbsent(self, files, now, response) ==
    IF Falsy(self.FullReport)
    THEN Fetched(self, fetch(self.StationID, files, now, response), files)
    ELSE [wr |-> self, exc |-> "none", files |-> files]

\* FetchReport: the observation and the files as it leaves them
FetchReport(self, files, now, response) ==
    IF Falsy(self.ReportURL) \/ Falsy(self.FullReport)
    THEN Fetched(self, fetch(self.StationID, files, now, response), files)
    ELSE [wr |-> self, exc |-> "none", files |-> files]

\* ------------------------------------------------------------------------
\* The reports, stations, files, clock readings and responses of the model
\* ------------------------------------------------------------------------

MaxFetches == 1

StationLines ==
    {"Ab, Cd (ABCD) 12-34N 056-07W 5M",
     "Station name (ABCD) 12-34N 056-07W 5M",
     "(ABCD) 51-14N 006-30E 10M",
     "Ef, Gh (ABCD) O1-14N OO6-3OE 1OM",
     "Ef, Gh (ABCD) 01-14N 006-30E 10M",
     "Ab, Cd, Ef (ABCD) 51-14-30S 006-30W -2M",
     "Ab, Cd (ABCD) 12-34N 056-07W high",
     "Ab, Cd (ABCD) 51-14N 006-30E",
     "Name (ABCD) 1O-34N O56-O7W 5M"}

TemperatureLines ==
    {"Temperature: 68 F (20 C)",
     "Temperature: 50 F (10 C)",
     "Temperature: 41 F (5 C)"}

WindchillLines ==
    {"Windchill: 37 F (3 C)",
     "Windchill: n/a",
     "Windchill: 37 F (n/a C)"}

WindLines ==
    {"Wind: Calm:0",
     "Wind: Variable at 2 MPH (2 KT):0",
     "Wind: from the W (270 degrees) at 3 MPH (3 KT):0",
     "Wind: from the N (360 degrees) at 12 MPH (10 KT):0"}

\* Date and time lines, lines whose values do not convert, and the other
\* lines of a report
OtherLines ==
    {"Jul 25, 2002 - 11:12 AM EDT / 2002.07.25 1512 UTC",
     "Jul 25, 2002 / 1512 UTC",
     "2002.07.25 1512 UTC",
     "Jul 25 UTC /",
     "Temperature: abc F (20 C)",
     "Temperature: 68 F (xx C)",
     "Temperature: 68 F",
     "Wind: Variable at 2 MPH",
     "Wind: Variable at x MPH (2 KT):0",
     "Wind: from the N (x degrees) at 12 MPH (10 KT):0",
     "Wind: from the N (360 degrees) at 12 MPH (1x KT):0",
     "Wind: gusty",
     "Visibility: 10 mile(s):0",
     "Visibility: abc",
     "Visibility: less than 1 mile:0",
     "Dew Point: 50 F (10 C)",
     "Dew Point: n/a",
     "Relative Humidity: 52%",
     "Relative Humidity: n/a",
     "Pressure (altimeter): 30.01 in. Hg (1016 hPa)",
     "Pressure (altimeter): n/a",
     "Pressure (altimeter): 30.01",
     "Weather: light rain",
     "Weather:",
     "Sky conditions: mostly cloudy",
     "ob: ABCD 251512Z 36010KT -SHRA BKN020CB",
     "ob: ABCD 251512Z 00000KT +FC FEW010 OVC030",
     "ob: ABCD 251512Z -DZ TSRA BKNCB OVC020CU",
     "cycle: 15",
     "cycle: 24",
     "cycle: x",
     "cycle:",
     "Remarks: none",
     ""}

Lines ==
    StationLines \cup TemperatureLines \cup WindchillLines \cup WindLines
    \cup OtherLines

\* Lines that decode, to stand before another line
LeadingLines ==
    {"Ab, Cd (ABCD) 12-34N 056-07W 5M",
     "Temperature: 41 F (5 C)"}

\* Reports of one line, of two lines, of a Weather and an ob line in either
\* order, and of a temperature, a wind and a wind-chill line
Reports ==
    Lines
    \cup {a \o "\n" \o b : a \in LeadingLines, b \in Lines}
    \cup {"Weather: light rain\nob: ABCD 251512Z 36010KT -SHRA BKN020CB",
          "ob: ABCD 251512Z 36010KT -SHRA BKN020CB\nWeather: light rain",
          "Weather:\nob: ABCD 251512Z 36010KT -SHRA BKN020CB",
          "ob: ABCD 251512Z 36010KT FEW010\nWeather:"}
    \cup {t \o "\n" \o w \o "\n" \o c :
            t \in TemperatureLines, w \in WindLines, c \in WindchillLines \cup {""}}

URL == BaseURL \o "ABCD.TXT"

\* What /tmp holds when the observation is made: no report of the station, or
\* one saved earlier
InitialFiles ==
    {<<>>,
     [p \in {CachePath("ABCD")} |->
         "Ab, Cd (ABCD) 12-34N 056-07W 5M\n"
         \o "Jul 25, 2002 - 11:12 AM EDT / 2002.07.25 1512 UTC\n"
         \o "Temperature: 41 F (5 C)"]}

ReportTime == Timestamp(2002, 7, 25, 15, 12)

\* Clock readings: inside and outside the 3900 s of the cache, and before the
\* time the cached report states
Nows == {ReportTime + 3899, ReportTime + 3900, ReportTime - 7200}

Responses ==
    {[status_code |-> 404, text |-> "Not Found"],
     [status_code |-> 200,
      text |-> "Ab, Cd (ABCD) 12-34N 056-07W 5M\n"
               \o "Jul 25, 2002 - 01:12 PM EDT / 2002.07.25 1712 UTC\n"
               \o "Temperature: 68 F (20 C)\n"
               \o "Wind: Calm:0\n"],
     [status_code |-> 200, text |-> "\n"]}

\* ------------------------------------------------------------------------
\* The state machine: one observation, the files under /tmp, and the last
\* call made on the observation with what it raised and returned and the
\* observation as it was before the call.  clock is the latest reading of
\* datetime.now, in seconds since 1970 (0: not read yet): _cache reads it when
\* it looks a report up and the file of the station exists.
\* ------------------------------------------------------------------------

VARIABLES wr, files, last, fetches, clock

vars == <<wr, files, last, fetches, clock>>

Call(op, pre, exc, ret) == [op |-> op, pre |-> pre, exc |-> exc, ret |-> ret]

\* Reports given with a station that lacks, with no or an empty URL, as bytes
\* or not at all: the observations FetchReport acts on
FetchedReports ==
    {None, Bytes("ob: ABCD"), Some(""), Some("Temperature: 41 F (5 C)"),
     Some("Temperature: 41 F (5 C)\nWind: gusty"),
     Some("Weather: light rain\nWind: gusty"),
     Some("Ab, Cd (abcd) 12-34N 056-07W 5M")}

\* WeatherReport(MetarStationCode, url, report)
Init ==
    /\ \/ /\ \E report \in Reports : wr = New(Some("ABCD"), Some(URL), Some(report))
          /\ files = <<>>
       \/ /\ \E id \in {None, Some("ABCD"), Some("abcd")},
                url \in {None, Some(""), Some(URL)}, report \in FetchedReports :
                wr = New(id, url, report)
          /\ files \in InitialFiles
    /\ last = Call("__init__", wr, "none", None)
    /\ fetches = 0
    /\ clock = 0

\* A call on the observation that leaves the files alone, with its outcome r
Step(op, r) ==
    /\ wr' = r.wr
    /\ last' = Call(op, wr, r.exc, r.ret)
    /\ UNCHANGED <<files, fetches, clock>>

\* wr.ParseReport()
DoParseReport == Step("ParseReport", ParseReport(wr))

\* wr.FetchReport() with its outcome r
FetchStep(r) ==
    /\ wr' = r.wr
    /\ files' = r.files
    /\ last' = Call("FetchReport", wr, r.exc, None)

\* wr.FetchReport().  A call that reaches _fetch is made at some time, with
\* some answer of the server; fetches counts these calls, and at most
\* MaxFetches of them are made.  A call that finds both ReportURL and
\* FullReport reads neither the clock nor the network.
DoFetchReport ==
    IF Falsy(wr.ReportURL) \/ Falsy(wr.FullReport)
    THEN /\ fetches < MaxFetches
         /\ \E now \in Nows, response \in Responses :
               /\ FetchStep(FetchReport(wr, files, now, response))
               /\ clock' = IF ~IsNone(wr.StationID)
                               /\ CachePath(ToUpper(Val(wr.StationID))) \in DOMAIN files
                            THEN now ELSE clock
         /\ fetches' = fetches + 1
    ELSE /\ FetchStep(FetchReport(wr, files, ReportTime, [status_code |-> 404, text |-> ""]))
         /\ UNCHANGED <<fetches, clock>>

ReadWindchillCelsius == Step("WindchillCelsius", WindchillCelsius(wr))

ReadWindchillFahrenheit == Step("WindchillFahrenheit", WindchillFahrenheit(wr))

ReadISOTime == Step("ISOTime", ISOTime(wr))

ReadStationLatitudeFloat == Step("StationLatitudeFloat", StationLatitudeFloat(wr))

ReadStationLongitudeFloat == Step("StationLongitudeFloat", StationLongitudeFloat(wr))

ReadPressuremmHg == Step("PressuremmHg", PressuremmHg(wr))

ReadWindSpeedMPS == Step("WindSpeedMPS", Ret(wr, WindSpeedMPS(wr)))

ReadWindSpeedBeaufort == Step("WindSpeedBeaufort", WindSpeedBeaufort(wr))

\* VisibilityKilometers: self.VisibilityMiles * 1.609344 when it is not None
ReadVisibilityKilometers ==
    Step("VisibilityKilometers",
         Ret(wr, IF IsNone(wr.VisibilityMiles) THEN None
                 ELSE Some(DecMul(Val(wr.VisibilityMiles), D(1609344, 6)))))

ReadStationPosition == Step("StationPosition", StationPosition(wr))

\* StationPositionFloat: (StationLatitudeFloat, StationLongitudeFloat,
\* StationAltitude), the two floats read in this order
ReadStationPositionFloat ==
    Step("StationPositionFloat",
         IF StationLatitudeFloat(wr).exc # "none"
         THEN Raise(wr, StationLatitudeFloat(wr).exc)
         ELSE IF StationLongitudeFloat(wr).exc # "none"
         THEN Raise(wr, StationLongitudeFloat(wr).exc)
         ELSE Ret(wr, Some(<<StationLatitudeFloat(wr).ret,
                             StationLongitudeFloat(wr).ret, wr.StationAltitude>>)))

ReadApparentTemperatureCelsius ==
    Step("ApparentTemperatureCelsius", ApparentTemperatureCelsius(wr))

ReadApparentTemperatureFahrenheit ==
    Step("ApparentTemperatureFahrenheit", ApparentTemperatureFahrenheit(wr))

Next ==
    \/ DoParseReport
    \/ DoFetchReport
    \/ ReadWindchillCelsius
    \/ ReadWindchillFahrenheit
    \/ ReadISOTime
    \/ ReadStationLatitudeFloat
    \/ ReadStationLongitudeFloat
    \/ ReadPressuremmHg
    \/ ReadWindSpeedMPS
    \/ ReadWindSpeedBeaufort
    \/ ReadVisibilityKilometers
    \/ ReadStationPosition
    \/ ReadStationPositionFloat
    \/ ReadApparentTemperatureCelsius
    \/ ReadApparentTemperatureFahrenheit

Spec == Init /\ [][Next]_vars

\* ------------------------------------------------------------------------
\* Properties.  last holds the latest call, the observation as it was before
\* the call (last.pre), the exception the call ended with and its result.
\* ------------------------------------------------------------------------

\* The latest call was a ParseReport that ran the decode
Decoded == last.op = "ParseReport" /\ ~last.pre.parsed

\* The observation holds its raw report as text
TextPresent(self) == ~IsNone(self.FullReport) /\ ~IsBytes(self.FullReport)

ReportLines(self) == SplitSep(Val(self.FullReport), "\n", -1)

\* "(<stationID>)"
Tag(self) == "(" \o Val(self.StationID) \o ")"

\* The lines of the report that carry the parenthesised station ID
StationLinesOf(self) ==
    {i \in 1..Len(ReportLines(self)) : In(Tag(self), ReportLines(self)[i])}

\* The whitespace-separated tokens that follow the parenthesised ID on a line
TokensAfterID(line, tag) == SplitWS(From(line, Find(line, tag) + Len(tag)), -1)

\* C1: once ParseReport has completed on an observation (parsed is set), a
\* further ParseReport does not raise and leaves every field as it was.
C1_Idempotent ==
    (last.op = "ParseReport" /\ last.pre.parsed) => (last.exc = "none" /\ wr = last.pre)

\* A second ParseReport on a decoded observation, after FetchReport has put
\* another report into it
C1_Witness ==
    /\ last.op = "ParseReport" /\ last.pre.parsed /\ fetches > 0
    /\ ~IsNone(wr.TemperatureCelsius)
    /\ ~In("Temperature: 41 F", Val(wr.FullReport))
    /\ Val(wr.TemperatureFahrenheit) = D(41, 0)

\* C2 as stated: whenever ParseReport raises, every field of the observation
\* still has the value it had before the call.
C2_NoPartialMutation ==
    (last.op = "ParseReport" /\ last.exc # "none") => wr = last.pre

\* C3 as stated: with the report text and the station ID present and no
\* station line in the report, no line makes ParseReport raise, and the parsed
\* flag is set.
C3_Swallowed ==
    (Decoded /\ TextPresent(last.pre) /\ ~IsNone(last.pre.StationID)
        /\ StationLinesOf(last.pre) = {})
    => (last.exc = "none" /\ wr.parsed)

\* C4: ParseReport on an observation whose FullReport is None raises
\* EmptyReportException and leaves every field, the parsed flag included, as
\* it was, so that the next ParseReport meets the same observation.
C4_EmptyReport ==
    (last.op = "ParseReport" /\ IsNone(last.pre.FullReport))
    => (last.exc = "EmptyReportException" /\ wr = last.pre /\ ~wr.parsed)

\* ParseReport has been called on an observation without a report, after a
\* FetchReport that failed to supply one
C4_Witness ==
    /\ last.op = "ParseReport" /\ IsNone(last.pre.FullReport)
    /\ last.exc = "EmptyReportException" /\ fetches > 0

\* C5 as stated: when one line of the report carries "(<stationID>)" followed
\* by three tokens and the decode returns, the first token is StationLatitude,
\* the second StationLongitude (letter O read as zero), and the third without
\* its last character, when an integer, StationAltitude.
C5_StationTokens ==
    (Decoded /\ last.exc = "none" /\ TextPresent(last.pre)
        /\ ~IsNone(last.pre.StationID) /\ Cardinality(StationLinesOf(last.pre)) = 1)
    => LET i    == CHOOSE j \in StationLinesOf(last.pre) : TRUE
           toks == TokensAfterID(ReportLines(last.pre)[i], Tag(last.pre))
           alt  == ParseInt(DropLast(Replace(toks[3], "O", "0")))
       IN  Len(toks) = 3 =>
             /\ wr.StationLatitude = Some(Replace(toks[1], "O", "0"))
             /\ wr.StationLongitude = Some(Replace(toks[2], "O", "0"))
             /\ alt.ok => wr.StationAltitude = Some(alt.v)

\* C6 as stated: after every decode that returns, Cycle is an integer in
\* 0..23 (0 when the report has no cycle line or a malformed one).
C6_Cycle ==
    (Decoded /\ last.exc = "none") => (~IsNone(wr.Cycle) /\ Val(wr.Cycle) \in 0..23)

\* A line with every letter O after the parenthesised station ID turned into
\* the digit 0
DigitLine(line, tag) ==
    IF In(tag, line)
    THEN Slice(line, 0, Find(line, tag) + Len(tag))
         \o Replace(From(line, Find(line, tag) + Len(tag)), "O", "0")
    ELSE line

RECURSIVE DigitLines(_, _)
DigitLines(lines, tag) ==
    IF Len(lines) = 1 THEN DigitLine(lines[1], tag)
    ELSE DigitLine(lines[1], tag) \o "\n" \o DigitLines(Tail(lines), tag)

\* The observation with the station lines of its report written with digits
WithDigits(self) ==
    [self EXCEPT !.FullReport = Some(DigitLines(ReportLines(self), Tag(self)))]

\* C7: a station line with letter O in place of digit 0 in its tokens decodes
\* to the same StationLatitude, StationLongitude and StationAltitude, and to
\* the same StationLatitudeFloat and StationLongitudeFloat, as the line
\* written with the digit.
C7_LetterO ==
    (Decoded /\ TextPresent(last.pre) /\ ~IsNone(last.pre.StationID))
    => LET twin == ParseReport(WithDigits(last.pre))
       IN  /\ twin.exc = last.exc
           /\ wr.StationLatitude = twin.wr.StationLatitude
           /\ wr.StationLongitude = twin.wr.StationLongitude
           /\ wr.StationAltitude = twin.wr.StationAltitude
           /\ StationLatitudeFloat(wr).exc = StationLatitudeFloat(twin.wr).exc
           /\ StationLatitudeFloat(wr).ret = StationLatitudeFloat(twin.wr).ret
           /\ StationLongitudeFloat(wr).exc = StationLongitudeFloat(twin.wr).exc
           /\ StationLongitudeFloat(wr).ret = StationLongitudeFloat(twin.wr).ret

\* A report whose station line is written with letter O has been decoded, and
\* its latitude read as a float
C7_Witness ==
    /\ last.op = "StationLatitudeFloat" /\ last.exc = "none"
    /\ wr.parsed /\ TextPresent(wr) /\ In("O1-14N OO6-3OE 1OM", Val(wr.FullReport))
    /\ wr.StationLatitude = Some("01-14N")
    /\ wr.StationLongitude = Some("006-30E")
    /\ wr.StationAltitude = Some(10)
    /\ last.ret = Some([num |-> 4440, den |-> 3600])

\* The direct rule: the wind-chill formula of the temperature and the wind
\* speed when TemperatureCelsius <= 10 and the wind is faster than 4.8 km/h,
\* the temperature otherwise.  1 mile per hour is 1.609344 km/h.
DirectRule(C, mph) ==
    IF IsNone(C) \/ IsNone(mph) THEN C
    ELSE IF DecLE(Val(C), D(10, 0)) /\ DecGT(DecMul(Val(mph), D(1609344, 6)), D(48, 1))
    THEN Some(ChillCelsius(Val(C), DecMul(Val(mph), D(1609344, 6))))
    ELSE C

\* The Celsius values of the Windchill lines of a report that convert
WindchillValues(self) ==
    {ParseFloat(From(SplitWS(SplitSep(ReportLines(self)[i], ":", 1)[2], 3)[3], 1)).v :
        i \in {j \in 1..Len(ReportLines(self)) :
                  /\ Len(SplitSep(ReportLines(self)[j], ":", 1)) = 2
                  /\ Strip(SplitSep(ReportLines(self)[j], ":", 1)[1]) = "Windchill"
                  /\ Len(SplitWS(SplitSep(ReportLines(self)[j], ":", 1)[2], 3)) >= 3
                  /\ ParseFloat(SplitWS(SplitSep(ReportLines(self)[j], ":", 1)[2], 3)[1]).ok
                  /\ ParseFloat(From(SplitWS(SplitSep(ReportLines(self)[j], ":", 1)[2],
                                             3)[3], 1)).ok}}

\* C8 as stated: every read of WindchillCelsius on a decoded observation
\* returns the direct rule evaluated on the decoded temperature and wind speed.
C8_DirectRule ==
    (last.op = "WindchillCelsius" /\ last.pre.parsed)
    => last.ret = DirectRule(last.pre.TemperatureCelsius, last.pre.WindSpeedMilesPerHour)

\* C8, amended: a read of WindchillCelsius on a decoded observation does not
\* raise; it returns what the wind-chill slot holds when the slot is filled,
\* and the direct rule evaluated on the decoded temperature and wind speed
\* when the slot is empty; it changes nothing but the slot, which then holds
\* the value returned, and a further read returns the same value.  A decode
\* of a report with one Windchill line whose values convert leaves that
\* line's Celsius value in the slot.
C8_Windchill ==
    /\ (last.op = "WindchillCelsius" /\ last.pre.parsed)
       => /\ last.exc = "none"
          /\ last.ret = IF IsNone(last.pre._w_chill)
                        THEN DirectRule(last.pre.TemperatureCelsius,
                                        last.pre.WindSpeedMilesPerHour)
                        ELSE last.pre._w_chill
          /\ wr = [last.pre EXCEPT !._w_chill = last.ret]
          /\ WindchillCelsius(wr).ret = last.ret
    /\ (Decoded /\ last.exc = "none" /\ ~IsNone(last.pre.StationID)
           /\ Cardinality(WindchillValues(last.pre)) = 1)
       => wr._w_chill = Some(CHOOSE v \in WindchillValues(last.pre) : TRUE)

\* WindchillCelsius has been read on a decoded observation whose report has a
\* Windchill line, and has returned that line's value, which is not what the
\* direct rule gives
C8_Witness ==
    /\ last.op = "WindchillCelsius" /\ last.pre.parsed
    /\ WindchillValues(last.pre) = {D(3, 0)}
    /\ last.ret = Some(D(3, 0))
    /\ last.ret # DirectRule(last.pre.TemperatureCelsius, last.pre.WindSpeedMilesPerHour)

\* C9 as stated: ISOTime never raises.
C9_ISOTimeNeverRaises == last.op = "ISOTime" => last.exc = "none"

\* C10 as stated: on an observation whose FullReport is present, FetchReport
\* leaves FullReport, ReportURL and StationID unchanged (and, calling no
\* fetcher, cannot raise).
C10_OnlyIfAbsent ==
    (last.op = "FetchReport" /\ Truthy(last.pre.FullReport))
    => (last.exc = "none" /\ wr = last.pre)

\* C10, amended: FetchReport calls the fetcher exactly when ReportURL or
\* FullReport is absent or empty.  With both present and non-empty it changes
\* neither the observation nor the files and does not raise; otherwise, when
\* it returns, StationID, ReportURL and FullReport are what the fetcher
\* returned: the upper-cased ID (there was one), the URL of that ID and a
\* report.
C10_FetchGuard ==
    [][last'.op = "FetchReport"
       => IF Truthy(wr.ReportURL) /\ Truthy(wr.FullReport)
          THEN wr' = wr /\ files' = files /\ last'.exc = "none"
          ELSE last'.exc = "none"
               => /\ ~IsNone(wr.StationID)
                  /\ wr'.StationID = Some(ToUpper(Val(wr.StationID)))
                  /\ wr'.ReportURL = Some(ReportURLOf(ToUpper(Val(wr.StationID))))
                  /\ TextPresent(wr')]_vars

\* FetchReport has been called on an observation with a report but no URL, and
\* has replaced the report
C10_Witness ==
    /\ last.op = "FetchReport" /\ last.exc = "none"
    /\ Truthy(last.pre.FullReport) /\ IsNone(last.pre.ReportURL)
    /\ wr.FullReport # last.pre.FullReport
    /\ wr.ReportURL = Some(URL)

\* The observation self with its identity (FullReport, ReportURL, StationID)
\* taken from other
WithIdentity(self, other) ==
    [self EXCEPT !.FullReport = other.FullReport, !.ReportURL = other.ReportURL,
                 !.StationID = other.StationID]

\* The observation self with its two wind-chill slots taken from other
WithMemo(self, other) ==
    [self EXCEPT !._w_chill = other._w_chill, !._w_chillf = other._w_chillf]

\* C11 as stated: once parsed is set, no call changes FullReport, ReportURL,
\* StationID, a primary decoded field or the parsed flag; only the wind-chill
\* slots may change.
C11_Immutable == [][wr.parsed => WithMemo(wr', wr) = wr]_vars

\* C11, amended: once parsed is set, no call changes a primary decoded field
\* or the parsed flag.  FullReport, ReportURL and StationID stay too, except
\* under a FetchReport on an observation whose ReportURL or FullReport is
\* absent or empty.
C11_DecodedKept ==
    [][wr.parsed
       => /\ WithIdentity(WithMemo(wr', wr), wr) = wr
          /\ (WithIdentity(wr', wr) # wr'
                => /\ last'.op = "FetchReport"
                   /\ (Falsy(wr.ReportURL) \/ Falsy(wr.FullReport)))]_vars

\* A decoded observation was fetched again and its report replaced while its
\* decoded fields stayed.
C11_Witness ==
    /\ last.op = "FetchReport" /\ last.pre.parsed /\ last.exc = "none"
    /\ wr.FullReport # last.pre.FullReport
    /\ ~IsNone(wr.TemperatureCelsius)
    /\ WithIdentity(wr, last.pre) = last.pre

\* The derived accessors (the properties of src/pymetar.py:459-562)
DerivedAccessors ==
    {"PressuremmHg", "WindSpeedMPS", "WindSpeedBeaufort", "VisibilityKilometers",
     "StationPosition", "StationPositionFloat", "StationLatitudeFloat",
     "StationLongitudeFloat", "ISOTime", "ApparentTemperatureCelsius",
     "ApparentTemperatureFahrenheit", "WindchillCelsius", "WindchillFahrenheit"}

\* C12: reading a derived accessor changes no identity field, no primary
\* field and not the parsed flag, whether it returns or raises.  The only
\* writes are WindchillCelsius to _w_chill and WindchillFahrenheit to
\* _w_chillf, each leaving the other slot as it was.
C12_AccessorsPure ==
    last.op \in DerivedAccessors
    => IF last.op = "WindchillCelsius"
       THEN [wr EXCEPT !._w_chill = last.pre._w_chill] = last.pre
       ELSE IF last.op = "WindchillFahrenheit"
       THEN [wr EXCEPT !._w_chillf = last.pre._w_chillf] = last.pre
       ELSE wr = last.pre

\* WindchillFahrenheit has just filled its slot on a decoded observation whose
\* Celsius slot is still empty.
C12_Witness ==
    /\ last.op = "WindchillFahrenheit" /\ last.pre.parsed
    /\ IsNone(last.pre._w_chillf) /\ ~IsNone(wr._w_chillf)
    /\ IsNone(wr._w_chill) /\ ~IsNone(wr.TemperatureCelsius)

\* C13 as stated: when the one station line of the report carries
\* "(<stationID>)" followed by a latitude and a longitude token and no third
\* token, ParseReport returns with StationLatitude and StationLongitude set
\* and StationAltitude absent.
C13_NoAltitude ==
    (Decoded /\ TextPresent(last.pre) /\ ~IsNone(last.pre.StationID)
        /\ Cardinality(StationLinesOf(last.pre)) = 1)
    => LET i    == CHOOSE j \in StationLinesOf(last.pre) : TRUE
           toks == TokensAfterID(ReportLines(last.pre)[i], Tag(last.pre))
       IN  Len(toks) = 2 =>
             /\ last.exc = "none"
             /\ wr.StationLatitude = Some(Replace(toks[1], "O", "0"))
             /\ wr.StationLongitude = Some(Replace(toks[2], "O", "0"))
             /\ IsNone(wr.StationAltitude)

\* The latest call was a FetchReport that took its report from the cache file
\* of the station
FromCache ==
    /\ last.op = "FetchReport" /\ last.exc = "none" /\ ~IsNone(last.pre.StationID)
    /\ CachePath(ToUpper(Val(last.pre.StationID))) \in DOMAIN files
    /\ wr.FullReport =
         Some(files[CachePath(ToUpper(Val(last.pre.StationID)))] \o "\ncache: "
              \o CachePath(ToUpper(Val(last.pre.StationID))))

\* The time the cached report of the latest FetchReport states
CachedTime ==
    Val(metar_to_date(Strip(SplitSep(
        SplitSep(files[CachePath(ToUpper(Val(last.pre.StationID)))], "\n", -1)[2],
        "/", -1)[2])).ret)

\* C14 as stated: FetchReport takes the report from the cache only if the
\* time the cached report states is at most 65 minutes before and at most 65
\* minutes after the clock.
C14_Window ==
    FromCache => (clock - CachedTime <= 3900 /\ CachedTime - clock <= 3900)

\* The whitespace-separated groups of the encoded report of self
Groups(self) ==
    IF IsNone(self.RawMetarCode) THEN <<>> ELSE SplitWS(Val(self.RawMetarCode), -1)

\* The positions of the groups the condition grammar matches
CondHits(self) == {i \in 1..Len(Groups(self)) : MatchesCond(Groups(self)[i])}

\* C15: after a decode that returns, Conditions is (None, None) exactly when no
\* group of the encoded report matches the condition grammar; otherwise it is
\* the description and icon, both present, that the first matching group
\* alone resolves to, whatever groups follow.
C15_FirstCondition ==
    (Decoded /\ last.exc = "none")
    => IF CondHits(wr) = {} THEN wr.Conditions = Some(<<None, None>>)
       ELSE /\ wr.Conditions =
                 Some(CondPair(CondLoop(<<Groups(wr)[MinOf(CondHits(wr))]>>)))
            /\ ~IsNone(Val(wr.Conditions)[1]) /\ ~IsNone(Val(wr.Conditions)[2])

\* A decoded report with two condition groups that resolve differently
C15_Witness ==
    /\ Decoded /\ last.exc = "none" /\ Cardinality(CondHits(wr)) = 2
    /\ CondLoop(<<Groups(wr)[MaxOf(CondHits(wr))]>>)
         # CondLoop(<<Groups(wr)[MinOf(CondHits(wr))]>>)
    /\ wr.Conditions = Some(<<Some("Light drizzle"), Some("rain")>>)

\* The descriptions the entry of code in _WEATHER_CONDITIONS can give
Descriptions(code) ==
    {WEATHER_CONDITIONS[code].name}
    \cup {WEATHER_CONDITIONS[code].quals[q][1] : q \in DOMAIN WEATHER_CONDITIONS[code].quals}

\* C16 as stated: when the first group of the encoded report that matches the
\* condition grammar is "+FC", the decoded description is one of the "+FC"
\* entry (the tornado) and the icon is that entry's, "storm".
C16_Tornado ==
    (Decoded /\ last.exc = "none" /\ CondHits(wr) # {}
        /\ Groups(wr)[MinOf(CondHits(wr))] = "+FC")
    => /\ Val(Val(wr.Conditions)[1]) \in Descriptions("+FC")
       /\ Val(wr.Conditions)[2] = Some(WEATHER_CONDITIONS["+FC"].pixmap)

\* The type suffix of a group w the cloud grammar matches: what follows the
\* coverage and the optional three digits ("" when nothing does)
SuffixOf(w) ==
    CHOOSE t \in CloudSuffixes \cup {""} :
        \E c \in Coverages :
            /\ Len(w) >= Len(c) + Len(t)
            /\ SubSeq(w, 1, Len(c)) = c
            /\ SubSeq(w, Len(w) - Len(t) + 1, Len(w)) = t
            /\ Len(w) - Len(t) - Len(c) \in {0, 3}
            /\ AllDigits(SubSeq(w, Len(c) + 1, Len(w) - Len(t)))

\* The positions of the groups the cloud grammar matches with a suffix that
\* CLOUDTYPES names
TypedClouds(self) ==
    {i \in 1..Len(Groups(self)) :
        MatchesCloud(Groups(self)[i]) /\ SuffixOf(Groups(self)[i]) \in DOMAIN CLOUDTYPES}

\* C17 as stated: after a decode that returns, Cloudtype is the CLOUDTYPES name
\* of the suffix of the first group that matches the cloud grammar and carries
\* a recognised suffix, with or without the three digits of the height, and
\* absent when there is no such group.
C17_Cloudtype ==
    (Decoded /\ last.exc = "none")
    => wr.Cloudtype =
         IF TypedClouds(wr) = {} THEN None
         ELSE Some(CLOUDTYPES[SuffixOf(Groups(wr)[MinOf(TypedClouds(wr))])])

\* The positions of the Weather lines of the report of self
WeatherLinesOf(self) ==
    {i \in 1..Len(ReportLines(self)) :
        /\ Len(SplitSep(ReportLines(self)[i], ":", 1)) = 2
        /\ Strip(SplitSep(ReportLines(self)[i], ":", 1)[1]) = "Weather"}

\* The text of the Weather line of the report of self, None without one
WeatherText(self) ==
    IF WeatherLinesOf(self) = {} THEN None
    ELSE Some(Strip(SplitSep(ReportLines(self)[MaxOf(WeatherLinesOf(self))], ":", 1)[2]))

\* C18 as stated: after a decode that returns, Weather is the first non-empty
\* of the text of the report's Weather line, the description of the condition
\* pass and the description of the cloud pass, and Pixmap the first present of
\* the icon of the condition pass and the icon of the cloud pass.
C18_WeatherPixmap ==
    (Decoded /\ last.exc = "none" /\ TextPresent(wr))
    => /\ wr.Weather = Or(WeatherText(wr), Or(Val(wr.Conditions)[1], Val(wr.Cloudinfo)[1]))
       /\ wr.Pixmap = Or(Val(wr.Conditions)[2], Val(wr.Cloudinfo)[2])

\* The location text of a station line: what stands before "(<stationID>)",
\* trimmed
Location(line, tag) == Strip(Slice(Strip(line), 0, Find(Strip(line), tag)))

Absent(op) == last.op = op => (last.exc = "none" /\ IsNone(last.ret))

\* C20 as stated: a derived accessor read while a primitive field it depends
\* on is None, on a fresh observation or a decoded one, does not raise and
\* returns None (the wind-chill accessors: do not raise, and return None when
\* the temperature is None and nothing is memoized).
C20_AbsentNotRaised ==
    /\ IsNone(last.pre.PressureInHg) => Absent("PressuremmHg")
    /\ IsNone(last.pre.WindSpeedMilesPerHour)
         => (Absent("WindSpeedMPS") /\ Absent("WindSpeedBeaufort"))
    /\ IsNone(last.pre.VisibilityMiles) => Absent("VisibilityKilometers")
    /\ (IsNone(last.pre.TemperatureCelsius) \/ IsNone(last.pre.WindSpeedMilesPerHour)
          \/ IsNone(last.pre.Humidity))
         => (Absent("ApparentTemperatureCelsius")
             /\ Absent("ApparentTemperatureFahrenheit"))
    /\ last.op \in {"WindchillCelsius", "WindchillFahrenheit"} => last.exc = "none"
    /\ (IsNone(last.pre.TemperatureCelsius) /\ IsNone(last.pre._w_chill))
         => Absent("WindchillCelsius")
    /\ (IsNone(last.pre.TemperatureFahrenheit) /\ IsNone(last.pre._w_chillf))
         => Absent("WindchillFahrenheit")
    /\ IsNone(last.pre.Time) => Absent("ISOTime")
    /\ IsNone(last.pre.StationLatitude) => Absent("StationLatitudeFloat")
    /\ IsNone(last.pre.StationLongitude) => Absent("StationLongitudeFloat")

====
